---- MODULE Spec2Model ----
(***************************************************************************)
(* The AST linearizer of cudf (cpp/src/ast/linearizer.cpp): the slot       *)
(* allocator intermediate_counter, the deduplicating table of data         *)
(* references, and the visitor that lowers an expression tree into a       *)
(* linear program.                                                         *)
(*                                                                         *)
(* Indices are 0-based as in the C++ code; a TLA+ sequence s holds the     *)
(* C++ element s[i] at position i + 1.                                     *)
(***************************************************************************)
EXTENDS Integers, Sequences, FiniteSets, TLC

VARIABLES
  used_values,              \* intermediate_counter::used_values
  max_used,                 \* intermediate_counter::max_used
  trace,                    \* history of the calls made on a bare intermediate_counter
  node_count,               \* linearizer::node_count
  literals,                 \* linearizer::literals (the literal pool)
  data_references,          \* linearizer::data_references (the reference table)
  operators,                \* linearizer::operators
  operator_source_indices,  \* linearizer::operator_source_indices
  stack,                    \* the active visit(expression) calls, innermost last
  status,                   \* "running", "returned" or "thrown"
  error,                    \* which CUDF_FAIL was raised, "none" if none
  result,                   \* what the run handed back to its caller
  last,                     \* the most recent visit, as it happened
  emitted,                  \* the operators emitted so far, each with its operands
  visited                   \* how many nodes of each kind were visited so far

vars == <<used_values, max_used, trace, node_count, literals, data_references,
          operators, operator_source_indices, stack, status, error, result, last,
          emitted, visited>>

linearizer_vars == <<node_count, literals, data_references, operators,
                     operator_source_indices, stack, status, error, result, last,
                     emitted, visited>>

(***************************************************************************)
(* Bounds of the model.                                                    *)
(***************************************************************************)
\* calls made on a bare intermediate_counter
MaxCalls == 5
\* largest slot handed to give() on a bare intermediate_counter
MaxGive == 2
\* nodes of the expression tree
MaxNodes == 6
\* operands of one expression node
MaxOperands == 3
\* leaf operands x1..xn of a left-nested chain of binary expressions
MaxChain == 4

(***************************************************************************)
(* Helpers on sequences and sets.                                          *)
(***************************************************************************)
Range(s) == {s[i] : i \in 1..Len(s)}

MaxOf(S) == CHOOSE x \in S : \A y \in S : y <= x

\* the smallest non-negative integer that is not in S
SmallestFree(S) ==
  CHOOSE n \in 0..Cardinality(S) : n \notin S /\ \A m \in 0..(n - 1) : m \in S

HasGap(S) == \E n \in S : \E m \in 0..(n - 1) : m \notin S

\* std::vector::insert(cbegin() + pos, v)
InsertAt(s, pos, v) ==
  [i \in 1..(Len(s) + 1) |->
     IF i <= pos THEN s[i] ELSE IF i = pos + 1 THEN v ELSE s[i - 1]]

\* std::vector::erase(it) at 0-based position pos
EraseAt(s, pos) ==
  [i \in 1..(Len(s) - 1) |-> IF i <= pos THEN s[i] ELSE s[i + 1]]

\* std::find: the 0-based position of the first element equal to v, Len(s) for cend()
Find(s, v) ==
  IF \E i \in 1..Len(s) : s[i] = v
  THEN (CHOOSE i \in 1..Len(s) : s[i] = v /\ \A j \in 1..(i - 1) : s[j] # v) - 1
  ELSE Len(s)

(***************************************************************************)
(* intermediate_counter                                                    *)
(***************************************************************************)
\* a search that overlooks the gaps and always answers the size
find_first_missing_no_gap(used, start, end) == end + 1

RECURSIVE find_first_missing(_, _, _)
find_first_missing(used, start, end) ==
  IF start > end THEN end + 1
  ELSE IF start # used[start + 1] THEN start
  ELSE LET mid == (start + end) \div 2
       IN  IF used[mid + 1] = mid
           THEN find_first_missing(used, mid + 1, end)
           ELSE find_first_missing(used, start, mid)

\* an emptiness test the wrong way round: the search runs on the empty set only
first_missing_of_inverted(used) ==
  IF Len(used) # 0 THEN 0 ELSE find_first_missing(used, 0, Len(used) - 1)

\* take(), line 37-38: the slot take() is about to return
first_missing_of(used) ==
  IF Len(used) # 0 THEN find_first_missing(used, 0, Len(used) - 1) ELSE 0

\* an insertion at the back instead of at the slot's own position
take_insert_push_back(used, first_missing) == Append(used, first_missing)

\* a take that hands out a slot without recording it
take_insert_forget(used, first_missing) == used

\* take(), line 39
take_insert(used, first_missing) == InsertAt(used, first_missing, first_missing)

\* a high-water mark overwritten instead of raised
take_max_used_overwrite(max, first_missing) == first_missing + 1

\* a high-water mark that forgets the + 1
take_max_used_no_increment(max, first_missing) ==
  IF max >= first_missing THEN max ELSE first_missing

\* take(), line 40
take_max_used(max, first_missing) ==
  IF max >= first_missing + 1 THEN max ELSE first_missing + 1

\* a give that erases the last slot instead of the one found
give_pop_back(used, value) ==
  LET found == Find(used, value)
  IN  IF found # Len(used) THEN SubSeq(used, 1, Len(used) - 1) ELSE used

\* give(value), lines 46-47
give(used, value) ==
  LET found == Find(used, value)
  IN  IF found # Len(used) THEN EraseAt(used, found) ELSE used

(***************************************************************************)
(* Data types, their traits and the operator registry.  These are cudf     *)
(* library functions the linearizer calls (cudf/types.hpp,                 *)
(* cudf/utilities/traits.hpp, cudf/ast/operators.hpp).                     *)
(***************************************************************************)
Types == {"INT32", "BOOL", "STRING", "DECIMAL128"}

\* cudf::is_fixed_width
is_fixed_width(data_type) == data_type # "STRING"

\* cudf::size_of, in bytes, of a fixed-width type
size_of(data_type) ==
  CASE data_type = "BOOL" -> 1
    [] data_type = "INT32" -> 4
    [] data_type = "DECIMAL128" -> 16

\* sizeof(std::int64_t), the width of one intermediate slot
IntermediateWidth == 8

Operators == {"IDENTITY", "ADD", "LESS"}

\* cudf::ast::ast_operator_return_type: the result type of op on operands that all
\* have one type, "FAIL" when the registry rejects the combination.  IDENTITY
\* keeps the type, ADD promotes as C++ arithmetic does, LESS compares.
ast_operator_return_type(op, operand_types) ==
  LET n == Len(operand_types)
      t == operand_types[1]
  IN  CASE op = "IDENTITY" /\ n = 1 -> t
        [] op = "ADD" /\ n = 2 /\ t \in {"INT32", "BOOL"} -> "INT32"
        [] op = "ADD" /\ n = 2 /\ t = "DECIMAL128" -> "DECIMAL128"
        [] op = "LESS" /\ n = 2 -> "BOOL"
        [] OTHER -> "FAIL"

\* the operand counts an expression node of the tree may have
OperandCounts(op) ==
  CASE op = "IDENTITY" -> {1}
    [] op = "LESS" -> {2}
    [] op = "ADD" -> 2..MaxOperands

(***************************************************************************)
(* The caller's input: the schema of the two tables and the leaves a tree  *)
(* may hold.                                                               *)
(***************************************************************************)
TableSchema ==
  [LEFT |-> <<"BOOL", "INT32">>, OUTPUT |-> <<"BOOL">>]

TableSources == {"LEFT", "OUTPUT"}

\* column_reference::get_data_type(table)
column_data_type(table_source, column_index) ==
  TableSchema[table_source][column_index + 1]

LiteralTypes == {"INT32", "STRING", "DECIMAL128"}

(***************************************************************************)
(* device_data_reference and the reference table.                          *)
(***************************************************************************)
NoReference ==
  [reference_type |-> "NONE", data_type |-> "NONE", data_index |-> -1,
   table_source |-> "LEFT"]

\* the two constructors of device_data_reference: the three-argument one leaves
\* the table source at LEFT
device_data_reference(reference_type, data_type, data_index, table_source) ==
  [reference_type |-> reference_type, data_type |-> data_type,
   data_index |-> data_index, table_source |-> table_source]

\* an equality that leaves the data index out
data_reference_equal_ignoring_index(a, b) ==
  /\ a.reference_type = b.reference_type
  /\ a.data_type = b.data_type
  /\ a.table_source = b.table_source

\* device_data_reference::operator==: all fields match
data_reference_equal(a, b) ==
  /\ a.reference_type = b.reference_type
  /\ a.data_type = b.data_type
  /\ a.data_index = b.data_index
  /\ a.table_source = b.table_source

\* std::find over the table with operator==: 0-based position, Len for cend()
find_data_reference(refs, data_ref) ==
  IF \E i \in 1..Len(refs) : data_reference_equal(refs[i], data_ref)
  THEN (CHOOSE i \in 1..Len(refs) :
          /\ data_reference_equal(refs[i], data_ref)
          /\ \A j \in 1..(i - 1) : ~data_reference_equal(refs[j], data_ref)) - 1
  ELSE Len(refs)

\* an intern that never looks for an equal entry
add_data_reference_no_dedup(refs, data_ref) ==
  [data_references |-> Append(refs, data_ref), index |-> Len(refs)]

\* an intern whose new index is the size after the append
add_data_reference_off_by_one(refs, data_ref) ==
  LET it == find_data_reference(refs, data_ref)
  IN  IF it # Len(refs)
      THEN [data_references |-> refs, index |-> it]
      ELSE [data_references |-> Append(refs, data_ref), index |-> Len(refs) + 1]

\* an intern that puts a new record in front of the table
add_data_reference_push_front(refs, data_ref) ==
  LET it == find_data_reference(refs, data_ref)
  IN  IF it # Len(refs)
      THEN [data_references |-> refs, index |-> it]
      ELSE [data_references |-> <<data_ref>> \o refs, index |-> 0]

\* linearizer::add_data_reference: the table afterwards and the index returned
add_data_reference(refs, data_ref) ==
  LET it == find_data_reference(refs, data_ref)
  IN  IF it # Len(refs)
      THEN [data_references |-> refs, index |-> it]
      ELSE [data_references |-> Append(refs, data_ref), index |-> Len(refs)]

\* an emptiness test that is off by one
get_root_data_type_single_is_empty(refs) ==
  IF Len(refs) <= 1 THEN "EMPTY" ELSE refs[Len(refs)].data_type

\* linearizer::get_root_data_type
get_root_data_type(refs) ==
  IF Len(refs) = 0 THEN "EMPTY" ELSE refs[Len(refs)].data_type

(***************************************************************************)
(* visit(expression), lines 105-161: what happens once the operands are    *)
(* visited.                                                                *)
(***************************************************************************)
\* lines 106-112
operand_types_of(refs, indices) ==
  [i \in 1..Len(indices) |-> refs[indices[i] + 1].data_type]

\* a validation that compares the first two operands only
types_mismatch_first_pair(operand_types) ==
  Len(operand_types) >= 2 /\ operand_types[1] # operand_types[2]

\* lines 114-115: std::adjacent_find with std::not_equal_to finds a pair
types_mismatch(operand_types) ==
  \E i \in 1..(Len(operand_types) - 1) : operand_types[i] # operand_types[i + 1]

\* a visit that keeps the slots of its operands
give_operands_none(used, refs, indices) == used

\* a loop that stops after the first operand
give_operands_first_only(used, refs, indices) ==
  IF indices = <<>> THEN used
  ELSE LET operand_source == refs[Head(indices) + 1]
       IN  IF operand_source.reference_type = "INTERMEDIATE"
           THEN give(used, operand_source.data_index)
           ELSE used

\* lines 119-128: give back the slots of the INTERMEDIATE operands, in order
RECURSIVE give_operands(_, _, _)
give_operands(used, refs, indices) ==
  IF indices = <<>> THEN used
  ELSE LET operand_source == refs[Head(indices) + 1]
           next == IF operand_source.reference_type = "INTERMEDIATE"
                   THEN give(used, operand_source.data_index)
                   ELSE used
       IN  give_operands(next, refs, Tail(indices))

\* an output step that sends no node to the output column
output_of_never_root(node_index, data_type, used, max) ==
  IF ~is_fixed_width(data_type)
  THEN [error |-> "not_fixed_width", output |-> NoReference, slot |-> -1,
        used_values |-> used, max_used |-> max]
  ELSE IF size_of(data_type) > IntermediateWidth
  THEN [error |-> "too_large", output |-> NoReference, slot |-> -1,
        used_values |-> used, max_used |-> max]
  ELSE LET first_missing == first_missing_of(used)
       IN  [error |-> "none",
            output |-> device_data_reference("INTERMEDIATE", data_type,
                                             first_missing, "LEFT"),
            slot |-> first_missing,
            used_values |-> take_insert(used, first_missing),
            max_used |-> take_max_used(max, first_missing)]

\* an output step that takes the slot before it looks at the type
output_of_take_first(node_index, data_type, used, max) ==
  LET first_missing == first_missing_of(used)
      taken == take_insert(used, first_missing)
      peak == take_max_used(max, first_missing)
  IN  IF node_index = 0
      THEN [error |-> "none",
            output |-> device_data_reference("COLUMN", data_type, 0, "OUTPUT"),
            slot |-> -1, used_values |-> used, max_used |-> max]
      ELSE IF ~is_fixed_width(data_type)
      THEN [error |-> "not_fixed_width", output |-> NoReference, slot |-> -1,
            used_values |-> taken, max_used |-> peak]
      ELSE IF size_of(data_type) > IntermediateWidth
      THEN [error |-> "too_large", output |-> NoReference, slot |-> -1,
            used_values |-> taken, max_used |-> peak]
      ELSE [error |-> "none",
            output |-> device_data_reference("INTERMEDIATE", data_type,
                                             first_missing, "LEFT"),
            slot |-> first_missing, used_values |-> taken, max_used |-> peak]

\* lines 135-154: the output reference of the node, the slot taken for it and the
\* allocator afterwards, or the CUDF_FAIL raised
output_of(node_index, data_type, used, max) ==
  IF node_index = 0
  THEN [error |-> "none",
        output |-> device_data_reference("COLUMN", data_type, 0, "OUTPUT"),
        slot |-> -1, used_values |-> used, max_used |-> max]
  ELSE IF ~is_fixed_width(data_type)
  THEN [error |-> "not_fixed_width", output |-> NoReference, slot |-> -1,
        used_values |-> used, max_used |-> max]
  ELSE IF size_of(data_type) > IntermediateWidth
  THEN [error |-> "too_large", output |-> NoReference, slot |-> -1,
        used_values |-> used, max_used |-> max]
  ELSE LET first_missing == first_missing_of(used)
       IN  [error |-> "none",
            output |-> device_data_reference("INTERMEDIATE", data_type,
                                             first_missing, "LEFT"),
            slot |-> first_missing,
            used_values |-> take_insert(used, first_missing),
            max_used |-> take_max_used(max, first_missing)]

\* a destination index written before the source indices
append_source_indices_output_first(srcs, indices, index) ==
  (srcs \o <<index>>) \o indices

\* lines 157-160: the operand indices, then the index of the output
append_source_indices(srcs, indices, index) == Append(srcs \o indices, index)

\* lines 105-161 for the call frame f, from the linearizer's members before
visit_expression(f, used, max, refs, ops, srcs) ==
  LET operand_types == operand_types_of(refs, f.indices)
      given == give_operands(used, refs, f.indices)
      data_type == ast_operator_return_type(f.op, operand_types)
      unchanged == [error |-> "none", used_values |-> used, max_used |-> max,
                    data_references |-> refs, operators |-> ops,
                    operator_source_indices |-> srcs,
                    operand_types |-> operand_types, given |-> used,
                    data_type |-> "NONE", output |-> NoReference, slot |-> -1,
                    index |-> -1]
  IN  IF types_mismatch(operand_types)
      THEN [unchanged EXCEPT !.error = "type_mismatch"]
      ELSE IF data_type = "FAIL"
      THEN [unchanged EXCEPT !.error = "registry", !.used_values = given,
                             !.given = given]
      ELSE LET out == output_of(f.node_index, data_type, given, max)
               added == add_data_reference(refs, out.output)
           IN  IF out.error # "none"
               THEN [unchanged EXCEPT !.error = out.error,
                                      !.used_values = out.used_values,
                                      !.max_used = out.max_used,
                                      !.given = given,
                                      !.operators = Append(ops, f.op),
                                      !.data_type = data_type]
               ELSE [error |-> "none",
                     used_values |-> out.used_values,
                     max_used |-> out.max_used,
                     data_references |-> added.data_references,
                     operators |-> Append(ops, f.op),
                     operator_source_indices |->
                       append_source_indices(srcs, f.indices, added.index),
                     operand_types |-> operand_types,
                     given |-> given,
                     data_type |-> data_type,
                     output |-> out.output,
                     slot |-> out.slot,
                     index |-> added.index]

(***************************************************************************)
(* One linearization run.  The tree is the caller's input: each node is    *)
(* chosen when the traversal reaches it.  A frame of the stack is one      *)
(* visit(expression) call waiting in visit_operands: its node_index, its   *)
(* operator, the number of its operands, the indices returned so far and,  *)
(* for each, the position in operators of the operand's own operator (0    *)
(* for a leaf), and the allocated slots at the moment the call began.      *)
(***************************************************************************)
Init ==
  /\ used_values = <<>>
  /\ max_used = 0
  /\ trace = <<>>
  /\ node_count = 0
  /\ literals = <<>>
  /\ data_references = <<>>
  /\ operators = <<>>
  /\ operator_source_indices = <<>>
  /\ stack = <<>>
  /\ status = "running"
  /\ error = "none"
  /\ result = [returned |-> FALSE]
  /\ last = [visit |-> "none", node_index |-> -1, op |-> "NONE",
             reference |-> NoReference, table_before |-> <<>>, index |-> -1,
             error |-> "none", operand_indices |-> <<>>,
             operand_types |-> <<>>, operand_operators |-> <<>>,
             operator_position |-> 0, data_type |-> "NONE", slot |-> -1,
             used_before |-> <<>>, max_before |-> 0, given |-> <<>>,
             used_at_entry |-> <<>>]
  /\ emitted = <<>>
  /\ visited = [literal |-> 0, column |-> 0, expression |-> 0]

RECURSIVE Outstanding(_)
Outstanding(stk) ==
  IF stk = <<>> THEN 0
  ELSE (Head(stk).operand_count - Len(Head(stk).indices)) + Outstanding(Tail(stk))

\* the nodes of the tree that are still to be visited
Pending ==
  IF stack = <<>>
  THEN IF node_count = 0 THEN 1 ELSE 0
  ELSE Outstanding(stack) - (Len(stack) - 1)

\* the traversal is about to call accept on a node: the root, or the next operand
\* of the innermost visit_operands loop (lines 177-180)
AtNode ==
  /\ status = "running"
  /\ \/ stack = <<>> /\ node_count = 0
     \/ stack # <<>> /\ Len(stack[Len(stack)].indices) < stack[Len(stack)].operand_count

\* a failed visit that hands an index back as if nothing had happened
control_after_error_swallowed(err, stk, index, operator_position) ==
  IF stk = <<>>
  THEN [status |-> "returned", stack |-> <<>>]
  ELSE [status |-> "running",
        stack |-> [stk EXCEPT ![Len(stk)].indices = Append(@, index),
                              ![Len(stk)].operand_operators =
                                Append(@, operator_position)]]

\* where control goes when a visit ends: CUDF_FAIL throws through every caller,
\* a return hands the index to the caller's visit_operands loop (lines 178-179),
\* and the return of the root's visit ends the run
control_after(err, stk, index, operator_position) ==
  IF err # "none"
  THEN [status |-> "thrown", stack |-> <<>>]
  ELSE IF stk = <<>>
  THEN [status |-> "returned", stack |-> <<>>]
  ELSE [status |-> "running",
        stack |-> [stk EXCEPT ![Len(stk)].indices = Append(@, index),
                              ![Len(stk)].operand_operators =
                                Append(@, operator_position)]]

\* the linear program the caller reads from a linearizer that was constructed
LinearProgram(refs, pool, ops, srcs, peak) ==
  [returned |-> TRUE, data_references |-> refs, literals |-> pool,
   operators |-> ops, operator_source_indices |-> srcs,
   intermediate_count |-> peak, root_data_type |-> get_root_data_type(refs)]

\* visit(literal const&)
VisitLiteral ==
  /\ AtNode
  /\ \E data_type \in LiteralTypes :
       LET literal_index == Len(literals)
           source == device_data_reference("LITERAL", data_type, literal_index, "LEFT")
           added == add_data_reference(data_references, source)
           ctl == control_after("none", stack, added.index, 0)
       IN  /\ node_count' = node_count + 1
           /\ literals' = Append(literals, [data_type |-> data_type, value |-> "v"])
           /\ data_references' = added.data_references
           /\ stack' = ctl.stack
           /\ status' = ctl.status
           /\ result' = IF ctl.status = "returned"
                        THEN LinearProgram(data_references', literals', operators,
                                           operator_source_indices, max_used)
                        ELSE result
           /\ last' = [last EXCEPT !.visit = "literal", !.node_index = node_count,
                                   !.op = "NONE", !.reference = source,
                                   !.table_before = data_references,
                                   !.index = added.index, !.error = "none",
                                   !.operand_indices = <<>>, !.operand_types = <<>>,
                                   !.operand_operators = <<>>,
                                   !.operator_position = 0,
                                   !.data_type = data_type, !.slot = -1,
                                   !.used_before = used_values,
                                   !.max_before = max_used,
                                   !.given = used_values,
                                   !.used_at_entry = used_values]
  /\ visited' = [visited EXCEPT !.literal = @ + 1]
  /\ UNCHANGED <<used_values, max_used, trace, operators, operator_source_indices,
                 error, emitted>>

\* visit(column_reference const&)
VisitColumnReference ==
  /\ AtNode
  /\ \E table_source \in TableSources :
     \E column_index \in 0..(Len(TableSchema[table_source]) - 1) :
       LET data_type == column_data_type(table_source, column_index)
           source == device_data_reference("COLUMN", data_type, column_index,
                                           table_source)
           added == add_data_reference(data_references, source)
           ctl == control_after("none", stack, added.index, 0)
       IN  /\ node_count' = node_count + 1
           /\ data_references' = added.data_references
           /\ stack' = ctl.stack
           /\ status' = ctl.status
           /\ result' = IF ctl.status = "returned"
                        THEN LinearProgram(data_references', literals, operators,
                                           operator_source_indices, max_used)
                        ELSE result
           /\ last' = [last EXCEPT !.visit = "column", !.node_index = node_count,
                                   !.op = "NONE", !.reference = source,
                                   !.table_before = data_references,
                                   !.index = added.index, !.error = "none",
                                   !.operand_indices = <<>>, !.operand_types = <<>>,
                                   !.operand_operators = <<>>,
                                   !.operator_position = 0,
                                   !.data_type = data_type, !.slot = -1,
                                   !.used_before = used_values,
                                   !.max_before = max_used,
                                   !.given = used_values,
                                   !.used_at_entry = used_values]
  /\ visited' = [visited EXCEPT !.column = @ + 1]
  /\ UNCHANGED <<used_values, max_used, trace, literals, operators,
                 operator_source_indices, error, emitted>>

\* visit(expression const&), lines 99-104 up to the first operand: the node takes
\* its index and visit_operands starts
BeginExpression ==
  /\ AtNode
  /\ \E op \in Operators : \E operand_count \in OperandCounts(op) :
       /\ node_count + Pending + operand_count <= MaxNodes
       /\ stack' = Append(stack, [node_index |-> node_count, op |-> op,
                                  operand_count |-> operand_count,
                                  indices |-> <<>>, operand_operators |-> <<>>,
                                  used_at_entry |-> used_values])
  /\ node_count' = node_count + 1
  /\ visited' = [visited EXCEPT !.expression = @ + 1]
  /\ UNCHANGED <<used_values, max_used, trace, literals, data_references, operators,
                 operator_source_indices, status, error, result, last, emitted>>

\* visit(expression const&), lines 105-161: visit_operands has returned
FinishExpression ==
  /\ status = "running"
  /\ stack # <<>>
  /\ Len(stack[Len(stack)].indices) = stack[Len(stack)].operand_count
  /\ LET f == stack[Len(stack)]
         callers == SubSeq(stack, 1, Len(stack) - 1)
         v == visit_expression(f, used_values, max_used, data_references,
                               operators, operator_source_indices)
         ctl == control_after(v.error, callers, v.index, Len(v.operators))
     IN  /\ used_values' = v.used_values
         /\ max_used' = v.max_used
         /\ data_references' = v.data_references
         /\ operators' = v.operators
         /\ operator_source_indices' = v.operator_source_indices
         /\ error' = v.error
         /\ stack' = ctl.stack
         /\ status' = ctl.status
         /\ result' = IF ctl.status = "returned"
                      THEN LinearProgram(v.data_references, literals, v.operators,
                                         v.operator_source_indices, v.max_used)
                      ELSE result
         /\ last' = [last EXCEPT !.visit = "expression",
                                 !.node_index = f.node_index,
                                 !.op = f.op, !.reference = v.output,
                                 !.table_before = data_references,
                                 !.index = v.index, !.error = v.error,
                                 !.operand_indices = f.indices,
                                 !.operand_types = v.operand_types,
                                 !.operand_operators = f.operand_operators,
                                 !.operator_position =
                                   IF Len(v.operators) > Len(operators)
                                   THEN Len(v.operators) ELSE 0,
                                 !.data_type = v.data_type, !.slot = v.slot,
                                 !.used_before = used_values,
                                 !.max_before = max_used,
                                 !.given = v.given,
                                 !.used_at_entry = f.used_at_entry]
         /\ emitted' = IF v.error = "none"
                       THEN Append(emitted,
                                   [node_index |-> f.node_index, op |-> f.op,
                                    operand_indices |-> f.indices,
                                    operand_operators |-> f.operand_operators,
                                    index |-> v.index, slot |-> v.slot])
                       ELSE emitted
  /\ UNCHANGED <<trace, node_count, literals, visited>>

Next == VisitLiteral \/ VisitColumnReference \/ BeginExpression \/ FinishExpression

Spec == Init /\ [][Next]_vars

(***************************************************************************)
(* Properties of a linearization run.                                      *)
(***************************************************************************)
LastIsExpression == last.visit = "expression"

LastSucceeded == last.visit # "none" /\ last.error = "none"

\* C1: the emitted program is in topological order: every operand index a
\* visit(expression) holds or has written to operator_source_indices denotes an
\* entry the reference table already had when the operator was appended, and
\* the operator of every operand that is an expression sits strictly earlier
\* in operators than the operator of its parent.
C1_TopologicalOrder ==
  /\ \A d \in 1..Len(stack) : \A k \in 1..Len(stack[d].indices) :
       /\ stack[d].indices[k] >= 0
       /\ stack[d].indices[k] < Len(data_references)
       /\ stack[d].operand_operators[k] <= Len(operators)
  /\ \A i \in 1..Len(operator_source_indices) :
       /\ operator_source_indices[i] >= 0
       /\ operator_source_indices[i] < Len(data_references)
  /\ (LastIsExpression /\ last.operator_position > 0) =>
       /\ operators[last.operator_position] = last.op
       /\ \A k \in 1..Len(last.operand_indices) :
            /\ last.operand_indices[k] < Len(last.table_before)
            /\ last.operand_operators[k] < last.operator_position
            /\ last.table_before[last.operand_indices[k] + 1].reference_type
                 = "INTERMEDIATE" => last.operand_operators[k] >= 1

\* an operator was appended whose operands are an expression and a leaf
C1_Witness ==
  /\ LastIsExpression
  /\ last.error = "none"
  /\ Len(last.operand_indices) = 2
  /\ last.operand_operators[1] >= 1
  /\ last.operand_operators[2] = 0
  /\ last.operator_position = 2

\* C2: the output reference of an expression node is the column 0 of the output
\* table if and only if the node has visitation index 0; the output of every
\* other expression node is an INTERMEDIATE reference whose data index is the
\* slot take() has just returned.
C2_RootOutputOnly ==
  (LastIsExpression /\ last.error = "none") =>
    LET out == data_references[last.index + 1]
        output_column == /\ out.reference_type = "COLUMN"
                         /\ out.table_source = "OUTPUT"
                         /\ out.data_index = 0
    IN  /\ output_column <=> last.node_index = 0
        /\ out.data_type = last.data_type
        /\ last.node_index # 0 =>
             /\ out.reference_type = "INTERMEDIATE"
             /\ out.data_index = last.slot
             /\ last.slot = SmallestFree(Range(last.given))
             /\ Range(used_values) = Range(last.given) \cup {last.slot}

\* a run has returned whose root went to the output column and whose table holds
\* an intermediate
C2_Witness ==
  /\ status = "returned"
  /\ LastIsExpression
  /\ last.node_index = 0
  /\ \E i \in 1..Len(data_references) :
       data_references[i].reference_type = "INTERMEDIATE"

\* C6: add_data_reference is a deduplicating intern: a record equal to an entry
\* returns the index of that entry and leaves the table as it was, a record
\* that differs from every entry is appended and gets the new last index, and
\* the table never holds two equal entries.
C6_DeduplicatingIntern ==
  /\ LastSucceeded =>
       LET before == last.table_before
           present == {i \in 1..Len(before) : before[i] = last.reference}
       IN  /\ present # {} =>
                /\ data_references = before
                /\ last.index + 1 \in present
           /\ present = {} =>
                /\ data_references = Append(before, last.reference)
                /\ last.index = Len(before)
  /\ \A i \in 1..Len(data_references) : \A j \in 1..Len(data_references) :
       data_references[i] = data_references[j] => i = j

\* a record equal to an entry that is not the last one was interned
C6_Witness ==
  /\ LastSucceeded
  /\ Len(last.table_before) >= 2
  /\ last.index = 0
  /\ data_references = last.table_before

\* C7: visit(expression) fails with the type mismatch error exactly when two of
\* its operands, adjacent or not, have different resolved data types.
C7_TypeMismatch ==
  LastIsExpression =>
    (last.error = "type_mismatch" <=>
       \E i \in 1..Len(last.operand_types) : \E j \in 1..Len(last.operand_types) :
         last.operand_types[i] # last.operand_types[j])

\* three operands, the first two of one type and the third of another, fail
C7_Witness ==
  /\ LastIsExpression
  /\ last.error = "type_mismatch"
  /\ Len(last.operand_types) = 3
  /\ last.operand_types[1] = last.operand_types[2]
  /\ last.operand_types[3] # last.operand_types[1]

Unstorable(data_type) ==
  /\ data_type \in Types
  /\ ~is_fixed_width(data_type) \/ size_of(data_type) > IntermediateWidth

\* C8: a non-root expression node whose result type is not fixed-width or is
\* wider than 8 bytes fails, and no slot is taken for it; a root expression
\* node with such a result type does not fail.
C8_UnsupportedResultStorage ==
  LastIsExpression =>
    /\ (last.node_index # 0 /\ Unstorable(last.data_type)) =>
         /\ last.error = IF is_fixed_width(last.data_type)
                         THEN "too_large" ELSE "not_fixed_width"
         /\ used_values = last.given
         /\ max_used = last.max_before
    /\ last.error \in {"too_large", "not_fixed_width"} =>
         last.node_index # 0 /\ Unstorable(last.data_type)
    /\ (last.node_index = 0 /\ Unstorable(last.data_type)) => last.error = "none"

\* a non-root node fails on its result type while a slot of a sibling is live
C8_Witness ==
  /\ LastIsExpression
  /\ last.error = "not_fixed_width"
  /\ last.node_index # 0
  /\ used_values = <<0>>

\* C9: after a successful run whose root is an expression, get_root_data_type()
\* is the result type the registry resolved for the root operator.
C9_RootDataType ==
  (status = "returned" /\ LastIsExpression) =>
    result.root_data_type = last.data_type

\* C10: a run either returns a full linear program or fails atomically: once a
\* visit has raised an error the run is over, no node is visited any more and
\* nothing is returned; a program is returned only by a run without error that
\* has visited every node.
C10_AtomicFailure ==
  /\ error # "none" =>
       /\ status = "thrown"
       /\ result.returned = FALSE
       /\ ~ENABLED Next
  /\ status = "thrown" => error # "none"
  /\ result.returned <=> status = "returned"
  /\ status = "returned" =>
       /\ error = "none"
       /\ stack = <<>>
       /\ Pending = 0
       /\ result = LinearProgram(data_references, literals, operators,
                                 operator_source_indices, max_used)

\* the registry rejects the root after an operator and references were emitted
C10_Witness ==
  /\ status = "thrown"
  /\ error = "registry"
  /\ operators # <<>>
  /\ data_references # <<>>

\* C13: when the root is a bare literal or a bare column reference, the run
\* returns a table of exactly one entry, the node's own LITERAL or COLUMN
\* reference (not the output column), no operator, no index, peak 0 and the
\* node's data type as root type; an empty table gives the EMPTY sentinel.
C13_BareLeafRoot ==
  /\ (status = "returned" /\ last.visit \in {"literal", "column"}) =>
       /\ last.node_index = 0
       /\ Len(data_references) = 1
       /\ data_references[1] = last.reference
       /\ data_references[1].data_type = last.data_type
       /\ last.visit = "literal" =>
            /\ data_references[1].reference_type = "LITERAL"
            /\ data_references[1].data_index = 0
            /\ Len(literals) = 1
       /\ last.visit = "column" =>
            /\ data_references[1].reference_type = "COLUMN"
            /\ literals = <<>>
       /\ operators = <<>>
       /\ operator_source_indices = <<>>
       /\ max_used = 0
       /\ result = [returned |-> TRUE, data_references |-> data_references,
                    literals |-> literals, operators |-> <<>>,
                    operator_source_indices |-> <<>>, intermediate_count |-> 0,
                    root_data_type |-> last.data_type]
  /\ data_references = <<>> => get_root_data_type(data_references) = "EMPTY"

\* a bare column of the input table was linearized
C13_Witness ==
  /\ status = "returned"
  /\ last.visit = "column"
  /\ data_references = <<[reference_type |-> "COLUMN", data_type |-> "INT32",
                          data_index |-> 1, table_source |-> "LEFT"]>>
  /\ result.root_data_type = "INT32"

\* C14: the reference table is append-only during a run: every step leaves the
\* entries it found at their positions with their contents, so every index
\* written to operator_source_indices keeps denoting the same record.
C14_AppendOnly ==
  [][/\ Len(data_references') >= Len(data_references)
     /\ \A i \in 1..Len(data_references) : data_references'[i] = data_references[i]
     /\ Len(operator_source_indices') >= Len(operator_source_indices)
     /\ \A k \in 1..Len(operator_source_indices) :
          /\ operator_source_indices'[k] = operator_source_indices[k]
          /\ data_references'[operator_source_indices'[k] + 1]
               = data_references[operator_source_indices[k] + 1]]_vars

\* a literal was appended to the table after indices had been written
C14_Witness ==
  /\ last.visit = "literal"
  /\ Len(operator_source_indices) >= 2
  /\ Len(last.table_before) >= 2
  /\ Len(data_references) = Len(last.table_before) + 1

\* C15: in the emitted program no intermediate slot is overwritten between its
\* producer and its consumer: when operator p reads the INTERMEDIATE slot that
\* its operand, operator x, wrote, no operator emitted after x and before p has
\* that slot as its output.
C15_SlotNotOverwritten ==
  \A p \in 1..Len(emitted) : \A k \in 1..Len(emitted[p].operand_operators) :
    LET x == emitted[p].operand_operators[k]
        read == data_references[emitted[p].operand_indices[k] + 1]
    IN  x >= 1 =>
          /\ x < p
          /\ emitted[x].slot >= 0
          /\ read.reference_type = "INTERMEDIATE"
          /\ read.data_index = emitted[x].slot
          /\ \A q \in (x + 1)..(p - 1) :
               LET out == data_references[emitted[q].index + 1]
               IN  ~(out.reference_type = "INTERMEDIATE"
                     /\ out.data_index = emitted[x].slot)

\* two operators share one table row for slot 0 and a third operator runs
\* between the second of them and its consumer
C15_Witness ==
  /\ status = "returned"
  /\ Len(emitted) = 4
  /\ emitted[1].index = emitted[2].index
  /\ emitted[2].slot = 0
  /\ emitted[3].slot = 1
  /\ emitted[4].operand_operators = <<2, 3>>

\* the operators among the first k emitted whose intermediate output no operator
\* among the first k has consumed
LiveAfter(k) ==
  {x \in 1..k : /\ emitted[x].node_index # 0
                /\ \A p \in 1..k : x \notin Range(emitted[p].operand_operators)}

PeakLive == MaxOf({Cardinality(LiveAfter(k)) : k \in 0..Len(emitted)})

\* C16: at the end of a successful run every INTERMEDIATE entry of the table has
\* a data index below the reported peak, and the peak equals the largest
\* number of intermediates produced and not yet consumed at any point of the
\* emitted program.
C16_PeakIsExact ==
  status = "returned" =>
    /\ \A i \in 1..Len(data_references) :
         data_references[i].reference_type = "INTERMEDIATE" =>
           /\ data_references[i].data_index >= 0
           /\ data_references[i].data_index < result.intermediate_count
    /\ result.intermediate_count = max_used
    /\ result.intermediate_count = PeakLive

\* a program that needs two slots has returned with both slots given back
C16_Witness ==
  /\ status = "returned"
  /\ result.intermediate_count = 2
  /\ used_values = <<>>
  /\ Len(emitted) = 3

\* the slots of the INTERMEDIATE references among the table indices
OperandSlots(refs, indices) ==
  {refs[indices[k] + 1].data_index :
     k \in {j \in 1..Len(indices) : refs[indices[j] + 1].reference_type = "INTERMEDIATE"}}

\* C17: a slot is released exactly when its parent is processed: it is live
\* while the parent waits for its other operands, the parent's gives bring the
\* live set back to what it was when the parent's visit began, a non-root
\* visit then adds its own output slot to it, and after a successful run
\* whose root is an expression no slot is live.
C17_ReleasedByParent ==
  /\ \A d \in 1..Len(stack) :
       /\ OperandSlots(data_references, stack[d].indices) \subseteq Range(used_values)
       /\ Range(stack[d].used_at_entry) \subseteq Range(used_values)
  /\ (LastIsExpression /\ last.error = "none") =>
       /\ Range(last.used_before) =
            Range(last.used_at_entry)
              \cup OperandSlots(last.table_before, last.operand_indices)
       /\ last.given = last.used_at_entry
       /\ last.node_index # 0 =>
            /\ last.slot \notin Range(last.used_at_entry)
            /\ Range(used_values) = Range(last.used_at_entry) \cup {last.slot}
            /\ Len(used_values) = Len(last.used_at_entry) + 1
       /\ last.node_index = 0 => used_values = <<>>
  /\ (status = "returned" /\ LastIsExpression) => used_values = <<>>

\* a non-root visit releases the slot of its operand while the slot of a sibling
\* is live, and takes its own
C17_Witness ==
  /\ LastIsExpression
  /\ last.error = "none"
  /\ last.node_index # 0
  /\ last.used_at_entry = <<0>>
  /\ last.used_before = <<0, 1>>
  /\ last.given = <<0>>
  /\ used_values = <<0, 1>>

\* the chunks of the first k emitted operators, one after the other
RECURSIVE Chunks(_)
Chunks(k) ==
  IF k = 0 THEN <<>>
  ELSE (Chunks(k - 1) \o emitted[k].operand_indices) \o <<emitted[k].index>>

RECURSIVE ChunkLengths(_)
ChunkLengths(k) ==
  IF k = 0 THEN 0 ELSE ChunkLengths(k - 1) + Len(emitted[k].operand_indices) + 1

\* C18: after a successful run operators has exactly one entry per visited
\* expression node, and operator_source_indices is the concatenation, in the
\* order of operators, of one chunk per operator: its operand indices in
\* declaration order, then its own output index.
C18_ChunkedIndices ==
  status = "returned" =>
    /\ Len(operators) = visited.expression
    /\ Len(emitted) = Len(operators)
    /\ \A k \in 1..Len(operators) : operators[k] = emitted[k].op
    /\ operator_source_indices = Chunks(Len(emitted))
    /\ Len(operator_source_indices) = ChunkLengths(Len(emitted))
    /\ result.operators = operators
    /\ result.operator_source_indices = operator_source_indices

\* three operators with one and two operands were emitted
C18_Witness ==
  /\ status = "returned"
  /\ Len(operators) = 3
  /\ Len(operator_source_indices) = 7
  /\ visited.expression = 3

\* the rows of a table that refer to the literal pool
LiteralRows(refs) == {i \in 1..Len(refs) : refs[i].reference_type = "LITERAL"}

\* C19: every visit of a literal appends exactly one pool entry and exactly one
\* new LITERAL reference whose data index is that pool position, also when an
\* earlier literal has the same type and value; the number of LITERAL rows and
\* the pool size both equal the number of literal visits.
C19_LiteralNeverDeduplicated ==
  /\ Len(literals) = visited.literal
  /\ Cardinality(LiteralRows(data_references)) = visited.literal
  /\ {data_references[i].data_index : i \in LiteralRows(data_references)}
       = 0..(Len(literals) - 1)
  /\ last.visit = "literal" =>
       /\ data_references = Append(last.table_before, last.reference)
       /\ last.index = Len(last.table_before)
       /\ last.reference.reference_type = "LITERAL"
       /\ last.reference.data_index = Len(literals) - 1

\* a literal was visited after another literal of the same type and value
C19_Witness ==
  /\ last.visit = "literal"
  /\ \E i \in LiteralRows(last.table_before) :
       /\ last.table_before[i].data_type = last.reference.data_type
       /\ literals[last.table_before[i].data_index + 1] = literals[Len(literals)]

\* the slots of the INTERMEDIATE operands, in the order of the operands
OperandSlotSeq(refs, indices) ==
  LET intermediate(i) == refs[i + 1].reference_type = "INTERMEDIATE"
      chosen == SelectSeq(indices, intermediate)
  IN  [k \in 1..Len(chosen) |-> refs[chosen[k] + 1].data_index]

\* every give of the loop of lines 119-128 finds its value in used_values
RECURSIVE GivesHitLive(_, _)
GivesHitLive(used, slots) ==
  IF slots = <<>> THEN TRUE
  ELSE /\ Head(slots) \in Range(used)
       /\ GivesHitLive(give(used, Head(slots)), Tail(slots))

PairwiseDistinct(slots) ==
  \A j, k \in 1..Len(slots) : j # k => slots[j] # slots[k]

\* C20: every give() that visit(expression) issues targets a slot that is live
\* at that moment, and the INTERMEDIATE operands of one expression occupy
\* pairwise distinct slots, also when one operand is repeated.
C20_GivesTargetLiveSlots ==
  /\ \A d \in 1..Len(stack) :
       PairwiseDistinct(OperandSlotSeq(data_references, stack[d].indices))
  /\ LastIsExpression =>
       LET slots == OperandSlotSeq(last.table_before, last.operand_indices)
       IN  /\ PairwiseDistinct(slots)
           /\ last.error # "type_mismatch" =>
                /\ GivesHitLive(last.used_before, slots)
                /\ Len(last.given) = Len(last.used_before) - Len(slots)
                /\ Range(last.given) = Range(last.used_before) \ Range(slots)

\* an expression whose two operands are the same one-operand expression over
\* the same column, held in two different slots
C20_Witness ==
  /\ LastIsExpression /\ last.error = "none"
  /\ Len(last.operand_indices) = 2
  /\ Len(OperandSlotSeq(last.table_before, last.operand_indices)) = 2
  /\ Len(emitted) >= 3
  /\ LET a == emitted[Len(emitted) - 2]
         b == emitted[Len(emitted) - 1]
     IN  /\ a.op = b.op
         /\ a.operand_indices = b.operand_indices
         /\ a.operand_operators = b.operand_operators
         /\ Len(a.operand_indices) = 1
         /\ last.table_before[a.operand_indices[1] + 1].reference_type = "COLUMN"
         /\ last.operand_indices = <<a.index, b.index>>
         /\ a.slot # b.slot

(***************************************************************************)
(* A linearization run over the left-nested chains of binary expressions   *)
(* op(...op(op(x1, x2), x3)..., xn): an expression node stands at the root *)
(* or as the first operand of one, every other operand is a leaf.          *)
(***************************************************************************)
BinaryOperators == {op \in Operators : 2 \in OperandCounts(op)}

ChainBeginExpression ==
  /\ AtNode
  /\ IF stack = <<>> THEN TRUE ELSE stack[Len(stack)].indices = <<>>
  /\ Len(stack) < MaxChain - 1
  /\ \E op \in BinaryOperators :
       stack' = Append(stack, [node_index |-> node_count, op |-> op,
                               operand_count |-> 2,
                               indices |-> <<>>, operand_operators |-> <<>>,
                               used_at_entry |-> used_values])
  /\ node_count' = node_count + 1
  /\ visited' = [visited EXCEPT !.expression = @ + 1]
  /\ UNCHANGED <<used_values, max_used, trace, literals, data_references, operators,
                 operator_source_indices, status, error, result, last, emitted>>

ChainVisitLiteral == stack # <<>> /\ VisitLiteral

ChainVisitColumnReference == stack # <<>> /\ VisitColumnReference

NextChain ==
  \/ ChainBeginExpression
  \/ ChainVisitLiteral
  \/ ChainVisitColumnReference
  \/ FinishExpression

SpecChain == Init /\ [][NextChain]_vars

\* C11: in a left-nested chain of binary expressions over n >= 3 leaves every
\* non-root expression is given slot 0, the slot is live until the parent
\* consumes it and is released then, and the peak reported at the end is 1.
C11_LeftChainPeakOne ==
  /\ \A k \in 1..Len(emitted) : emitted[k].node_index # 0 => emitted[k].slot = 0
  /\ \A d \in 1..Len(stack) :
       (stack[d].indices # <<>> /\ stack[d].operand_operators[1] >= 1) =>
         used_values = <<0>>
  /\ (LastIsExpression /\ last.error = "none" /\ last.operand_operators[1] >= 1) =>
       /\ last.used_before = <<0>>
       /\ last.given = <<>>
  /\ (status = "returned" /\ Len(emitted) >= 2) =>
       /\ max_used = 1
       /\ result.intermediate_count = 1
       /\ used_values = <<>>

\* a chain over four leaves has returned
C11_Witness ==
  /\ status = "returned"
  /\ Len(emitted) = 3
  /\ visited.expression = 3
  /\ node_count = 7

(***************************************************************************)
(* A bare intermediate_counter driven by arbitrary take() and give(v)      *)
(* calls, from the empty allocator.                                        *)
(***************************************************************************)
InitCounter == Init

Take ==
  /\ Len(trace) < MaxCalls
  /\ LET first_missing == first_missing_of(used_values)
     IN  /\ used_values' = take_insert(used_values, first_missing)
         /\ max_used' = take_max_used(max_used, first_missing)
         /\ trace' = Append(trace, [call |-> "take", value |-> first_missing])
  /\ UNCHANGED linearizer_vars

Give ==
  /\ Len(trace) < MaxCalls
  /\ \E value \in 0..MaxGive :
       /\ used_values' = give(used_values, value)
       /\ trace' = Append(trace, [call |-> "give", value |-> value])
  /\ UNCHANGED <<max_used>>
  /\ UNCHANGED linearizer_vars

NextCounter == Take \/ Give

SpecCounter == InitCounter /\ [][NextCounter]_vars

(***************************************************************************)
(* Properties of the bare intermediate_counter.                            *)
(***************************************************************************)
\* the slots taken and not yet given after the first k calls of the trace
RECURSIVE Live(_)
Live(k) ==
  IF k = 0 THEN {}
  ELSE IF trace[k].call = "take"
       THEN Live(k - 1) \cup {trace[k].value}
       ELSE Live(k - 1) \ {trace[k].value}

\* C3: after any sequence of take() and give(v) calls on an initially empty
\* allocator, every take() returned the smallest non-negative integer that was
\* not allocated (the size of the set when it had no gap) and the allocated
\* sequence holds exactly the live slots, each once.
C3_TakeReturnsSmallestFree ==
  /\ \A k \in 1..Len(trace) :
        trace[k].call = "take" =>
          /\ trace[k].value = SmallestFree(Live(k - 1))
          /\ ~HasGap(Live(k - 1)) => trace[k].value = Cardinality(Live(k - 1))
  /\ Range(used_values) = Live(Len(trace))
  /\ Len(used_values) = Cardinality(Live(Len(trace)))

\* take, take, give(0), take has returned 0, 1, 0
C3_Witness ==
  /\ Len(trace) = 4
  /\ trace[1] = [call |-> "take", value |-> 0]
  /\ trace[2] = [call |-> "take", value |-> 1]
  /\ trace[3] = [call |-> "give", value |-> 0]
  /\ trace[4] = [call |-> "take", value |-> 0]
  /\ used_values = <<0, 1>>

\* C4: the high-water mark max_used equals the largest number of slots that
\* were live at the same time in any state reached so far.
C4_PeakIsMaxLive ==
  max_used = MaxOf({Cardinality(Live(k)) : k \in 0..Len(trace)})

\* the peak stays above the number of slots live now, after slots were given back
C4_Witness ==
  /\ max_used = 3
  /\ Len(used_values) = 1
  /\ trace[Len(trace)].call = "give"

\* C5: used_values is strictly ascending, and no take() returned a slot that
\* was live when it was called.
C5_SortedNoDuplicates ==
  /\ \A i \in 1..Len(used_values) : \A j \in 1..Len(used_values) :
        i < j => used_values[i] < used_values[j]
  /\ \A k \in 1..Len(trace) :
        trace[k].call = "take" => trace[k].value \notin Live(k - 1)

\* a slot given back is taken again while a larger slot is live
C5_Witness ==
  /\ Len(trace) = 5
  /\ trace[4] = [call |-> "give", value |-> 1]
  /\ trace[5] = [call |-> "take", value |-> 1]
  /\ used_values = <<0, 1, 2>>

\* C12: give(slot) removes exactly that slot when it is allocated and leaves the
\* other slots and max_used as they were; when the slot is not allocated it
\* changes nothing.
C12_GiveFrame ==
  [][(Len(trace') = Len(trace) + 1 /\ trace'[Len(trace')].call = "give") =>
       LET slot == trace'[Len(trace')].value
       IN  /\ max_used' = max_used
           /\ IF slot \in Range(used_values)
              THEN /\ Len(used_values') = Len(used_values) - 1
                   /\ used_values' = SelectSeq(used_values, LAMBDA x : x # slot)
              ELSE used_values' = used_values]_vars

\* slot 1 is given between two live slots, then given again
C12_Witness ==
  /\ Len(trace) = 5
  /\ trace[4] = [call |-> "give", value |-> 1]
  /\ trace[5] = [call |-> "give", value |-> 1]
  /\ used_values = <<0, 2>>
  /\ max_used = 3

====
